---- MODULE Spec2Model ----
(***************************************************************************)
(* Pratt (precedence climbing) parser of src/src/pratt.rs.                  *)
(*                                                                         *)
(* The two implementations of PrattParser::pratt_parse (Pratt, without      *)
(* prefix operators, and PrefixPratt, with them) are modelled as a machine  *)
(* with an explicit call stack: one frame per activation of pratt_parse,    *)
(* one action per statement group of the function.  The parser under test  *)
(* is the one built in the module's tests: decimal integer atoms, '+' '-'   *)
(* left-associative at strength 0, '*' '/' right-associative at strength 1, *)
(* and (PrefixPratt only) prefix '-' and '!' at strength 1.                 *)
(*                                                                         *)
(* Every input is parsed twice from position 0, first in mode Emit and     *)
(* then in mode Check, and the outcome of each run is recorded in `runs`.   *)
(***************************************************************************)
EXTENDS Integers, Sequences, FiniteSets, TLC

\* ------------------------------------------------------------------ bounds
MaxLen == 5      \* every token string up to this length is an input
MaxChain == 3    \* uniform operator chains with up to this many operators

\* --------------------------------------------------------------- utilities
Min(a, b) == IF a < b THEN a ELSE b

RECURSIVE SeqsUpTo(_, _)
SeqsUpTo(S, n) ==
  IF n = 0 THEN {<<>>}
  ELSE LET prev == SeqsUpTo(S, n - 1)
       IN prev \cup {Append(s, c) : s \in {t \in prev : Len(t) = n - 1}, c \in S}

Last(s) == s[Len(s)]
Range(s) == {s[i] : i \in 1..Len(s)}

\* ------------------------------------------------------------ tokens, text
Digits == <<"0", "1", "2", "3", "4", "5", "6", "7", "8", "9">>
IsDigit(c) == \E i \in 1..10 : Digits[i] = c
DigitValue(c) == (CHOOSE i \in 1..10 : Digits[i] = c) - 1

\* str::parse::<i64>() on a run of decimal digits (.from_str().unwrapped())
RECURSIVE from_str(_)
from_str(s) ==
  IF Len(s) = 0 THEN 0
  ELSE 10 * from_str(SubSeq(s, 1, Len(s) - 1)) + DigitValue(Last(s))

\* Display of an i64, as a sequence of characters
RECURSIVE to_string(_)
to_string(n) ==
  IF n < 10 THEN <<Digits[n + 1]>>
  ELSE Append(to_string(n \div 10), Digits[(n % 10) + 1])

\* ----------------------------------------------------------- expressions
Literal(n) == <<"Literal", n>>
Unit == <<>>

\* InfixBuilder / PrefixBuilder: the closures of the tests, named by the
\* variant they build
InfixBuild(op, lhs, rhs) == <<op, lhs, rhs>>
PrefixBuild(op, rhs) == <<op, rhs>>

\* impl Display for Expr
RECURSIVE fmt(_)
fmt(e) ==
  CASE e[1] = "Literal" -> to_string(e[2])
    [] e[1] = "Not"     -> <<"(", "!">> \o fmt(e[2]) \o <<")">>
    [] e[1] = "Negate"  -> <<"(", "-">> \o fmt(e[2]) \o <<")">>
    [] e[1] = "Add"     -> <<"(">> \o fmt(e[2]) \o <<" ", "+", " ">> \o fmt(e[3]) \o <<")">>
    [] e[1] = "Sub"     -> <<"(">> \o fmt(e[2]) \o <<" ", "-", " ">> \o fmt(e[3]) \o <<")">>
    [] e[1] = "Mul"     -> <<"(">> \o fmt(e[2]) \o <<" ", "*", " ">> \o fmt(e[3]) \o <<")">>
    [] e[1] = "Div"     -> <<"(">> \o fmt(e[2]) \o <<" ", "/", " ">> \o fmt(e[3]) \o <<")">>

\* ------------------------------------------------- precedence and strength
\* A Strength is <<level, side>>; side 1 is the tighter of the two strengths
\* of one level.
StrengthLt(a, b) == a[1] < b[1] \/ (a[1] = b[1] /\ a[2] < b[2])

None == [some |-> FALSE, strength |-> <<0, 0>>]
Some(s) == [some |-> TRUE, strength |-> s]

\* Strength::is_lt(&self, other: &Option<Strength>)
is_lt(s, other) == other.some /\ StrengthLt(s, other.strength)

\* InfixOp::new_left, InfixOp::new_right, PrefixOp::new
new_left(strength) ==
  [strength_left |-> <<strength, 0>>, strength_right |-> <<strength, 1>>]
new_right(strength) ==
  [strength_left |-> <<strength, 0>>, strength_right |-> <<strength, 0>>]
new_prefix(strength) ==
  [strength_left |-> <<strength, 0>>, strength_right |-> <<strength, 0>>]

PrattOpOutput(prec, build) == [prec |-> prec, build |-> build]

left_infix(strength, build) == PrattOpOutput(new_left(strength), build)
right_infix(strength, build) == PrattOpOutput(new_right(strength), build)
prefix(strength, build) == PrattOpOutput(new_prefix(strength), build)

\* the operator tables of the tests, keyed by the character of just(..)
InfixTokens == {"+", "-", "*", "/"}
infix_ops(c) ==
  CASE c = "+" -> left_infix(0, "Add")
    [] c = "-" -> left_infix(0, "Sub")
    [] c = "*" -> right_infix(1, "Mul")
    [] c = "/" -> right_infix(1, "Div")

PrefixTokens == {"-", "!"}
prefix_ops(c) ==
  CASE c = "-" -> prefix(1, "Negate")
    [] c = "!" -> prefix(1, "Negate")

NoOp == PrattOpOutput(new_right(0), "none")

\* ---------------------------------------------------------------- matchers
\* The cursor is the number of tokens consumed; the next token is inp[p + 1].
EndOfInput == "<eoi>"
NoFailure == [by |-> "none", found |-> EndOfInput, from |-> 0, to |-> 0]

\* Simple::expected_found(None, found, span) raised by matcher `by` at p
unexpected(by, inp, p) ==
  IF p < Len(inp)
  THEN [by |-> by, found |-> inp[p + 1], from |-> p, to |-> p + 1]
  ELSE [by |-> by, found |-> EndOfInput, from |-> p, to |-> p]

RECURSIVE DigitRun(_, _)
DigitRun(inp, p) ==
  IF p < Len(inp) /\ IsDigit(inp[p + 1]) THEN DigitRun(inp, p + 1) ELSE p

\* text::int(10).from_str().unwrapped().map(Expr::Literal): a non-zero digit
\* followed by digits, or a single zero.  A failing matcher leaves the cursor
\* adv tokens past its start.
atom_go(inp, p, adv) ==
  IF p < Len(inp) /\ IsDigit(inp[p + 1]) /\ inp[p + 1] # "0"
  THEN [ok |-> TRUE, pos |-> DigitRun(inp, p + 1),
        val |-> Literal(from_str(SubSeq(inp, p + 1, DigitRun(inp, p + 1)))),
        err |-> NoFailure]
  ELSE IF p < Len(inp) /\ inp[p + 1] = "0"
  THEN [ok |-> TRUE, pos |-> p + 1, val |-> Literal(0), err |-> NoFailure]
  ELSE [ok |-> FALSE, pos |-> Min(p + adv, Len(inp)), val |-> Unit,
        err |-> unexpected("atom", inp, p)]

\* choice((.. just(c) ..)) over the infix table, run in mode Emit
infix_go(inp, p, adv) ==
  IF p < Len(inp) /\ inp[p + 1] \in InfixTokens
  THEN [ok |-> TRUE, pos |-> p + 1, out |-> infix_ops(inp[p + 1]),
        err |-> NoFailure]
  ELSE [ok |-> FALSE, pos |-> Min(p + adv, Len(inp)), out |-> NoOp,
        err |-> unexpected("infix", inp, p)]

\* choice((.. just(c) ..)) over the prefix table, run in mode Emit
prefix_go(inp, p, adv) ==
  IF p < Len(inp) /\ inp[p + 1] \in PrefixTokens
  THEN [ok |-> TRUE, pos |-> p + 1, out |-> prefix_ops(inp[p + 1]),
        err |-> NoFailure]
  ELSE [ok |-> FALSE, pos |-> Min(p + adv, Len(inp)), out |-> NoOp,
        err |-> unexpected("prefix", inp, p)]

\* end(): succeeds exactly at the end of the input
end_go(inp, p) == p = Len(inp)

\* ------------------------------------------------------------------- modes
Modes == {"Emit", "Check"}

\* Mode::bind / Mode::map / Mode::combine: Emit builds, Check yields ()
M_bind(m, v) == IF m = "Emit" THEN v ELSE Unit
M_map(m, x, build) == IF m = "Emit" THEN PrefixBuild(build, x) ELSE Unit
M_combine(m, x, y, build) == IF m = "Emit" THEN InfixBuild(build, x, y) ELSE Unit

\* PResult<M, O>
Ok(v) == [set |-> TRUE, ok |-> TRUE, val |-> v, err |-> NoFailure]
Err(e) == [set |-> TRUE, ok |-> FALSE, val |-> Unit, err |-> e]
NoRet == [set |-> FALSE, ok |-> FALSE, val |-> Unit, err |-> NoFailure]

\* ------------------------------------------------------------------ inputs
Alphabet == {"1", "+", "*", "-", "?"}

\* a1 op a2 op ... with k operators drawn from ops
RECURSIVE Chains(_, _)
Chains(ops, k) ==
  IF k = 0 THEN {<<"1">>}
  ELSE {c \o <<o, "1">> : c \in Chains(ops, k - 1), o \in ops}

ChainsUpTo(ops, n) == UNION {Chains(ops, k) : k \in 1..n}

\* the inputs of the tests
ComplexNesting ==
  <<"1", "+", "2", "*", "3", "/", "4", "*", "5", "-", "6", "*", "7",
    "+", "8", "-", "9", "+", "1", "0">>
WithPrefixOps == <<"-", "1", "+", "2", "*", "3">>
ComplexNestingOutput ==
  <<"(", "(", "(", "(", "(", "1", " ", "+", " ", "(", "2", " ", "*", " ",
    "(", "3", " ", "/", " ", "(", "4", " ", "*", " ", "5", ")", ")", ")",
    ")", " ", "-", " ", "(", "6", " ", "*", " ", "7", ")", ")", " ", "+",
    " ", "8", ")", " ", "-", " ", "9", ")", " ", "+", " ", "1", "0", ")">>
WithPrefixOpsOutput ==
  <<"(", "(", "-", "1", ")", " ", "+", " ", "(", "2", " ", "*", " ", "3",
    ")", ")">>
MissingLater == <<"1", "+">>
InvalidLater == <<"1", "+", "?">>
InvalidOperator == <<"1", "?">>

Inputs ==
  SeqsUpTo(Alphabet, MaxLen)
    \cup ChainsUpTo({"+", "-"}, MaxChain)
    \cup ChainsUpTo({"*", "/"}, MaxChain)
    \cup {ComplexNesting, WithPrefixOps, <<"!", "1", "0">>, <<"0", "1">>,
          <<"!", "-", "2", "/", "3", "-", "4">>}

\* ------------------------------------------------------------------- state
VARIABLES
  input,        \* the token string being parsed
  variant,      \* "Pratt" or "PrefixPratt": which impl of PrattParser runs
  failAdvance,  \* how far a failing matcher leaves the cursor past its start
  mode,         \* the Mode M of the current run
  phase,        \* "idle", "running" (inside go) or "returned"
  pos,          \* the cursor of inp
  stack,        \* activations of pratt_parse, innermost first
  ret,          \* the PResult handed from a returning activation to its caller
  trace,        \* the matcher outcomes of the current run, in order
  runs          \* per mode, the outcome of go

vars == <<input, variant, failAdvance, mode, phase, pos, stack, ret, trace, runs>>

NoCheckpoint == -1

\* a fresh activation of pratt_parse(inp, min_strength); `open` tells that
\* pre_op holds a checkpoint that no rewind has gone back to
NewFrame(v, min_strength) ==
  [pc |-> IF v = "PrefixPratt" THEN "prefix" ELSE "atom",
   min_strength |-> min_strength,
   left |-> Unit,
   pre_op |-> NoCheckpoint,
   open |-> FALSE,
   op |-> "none",
   prec |-> NoOp.prec,
   m |-> [ok |-> FALSE, out |-> NoOp, err |-> NoFailure]]

NoRun == [done |-> FALSE, ok |-> FALSE, val |-> Unit, err |-> NoFailure,
          pos |-> 0, trace |-> <<>>, complete |-> FALSE]

Top == Head(stack)
SetTop(f) == <<f>> \o Tail(stack)

\* every matcher call records one entry, and no run needs more than this many
StepCap == 4 * Len(input) + 4
Log(what, at) == trace' = Append(trace, <<what, at>>)

Running(v, pc) ==
  /\ phase = "running"
  /\ variant = v
  /\ stack # <<>>
  /\ Top.pc = pc
  /\ Len(trace) < StepCap

Init ==
  /\ input \in Inputs
  /\ variant \in {"Pratt", "PrefixPratt"}
  /\ failAdvance \in {0, 1}
  /\ mode = "Emit"
  /\ phase = "idle"
  /\ pos = 0
  /\ stack = <<>>
  /\ ret = NoRet
  /\ trace = <<>>
  /\ runs = [m \in Modes |-> NoRun]

\* --------------------------------------------------------- ParserSealed::go
\* go::<M>: self.pratt_parse::<M>(inp, None)
Go ==
  /\ phase = "idle"
  /\ stack' = <<NewFrame(variant, None)>>
  /\ phase' = "running"
  /\ UNCHANGED <<input, variant, failAdvance, mode, pos, ret, trace, runs>>

\* go returns to its caller; parse() additionally requires end()
GoReturn ==
  /\ phase = "running"
  /\ stack = <<>>
  /\ ret.set
  /\ runs' = [runs EXCEPT ![mode] =
                [done |-> TRUE, ok |-> ret.ok, val |-> ret.val, err |-> ret.err,
                 pos |-> pos, trace |-> trace,
                 complete |-> ret.ok /\ end_go(input, pos)]]
  /\ phase' = "returned"
  /\ ret' = NoRet
  /\ UNCHANGED <<input, variant, failAdvance, mode, pos, stack, trace>>

\* the same parser run again on the same input, in mode Check
NextMode ==
  /\ phase = "returned"
  /\ mode = "Emit"
  /\ mode' = "Check"
  /\ pos' = 0
  /\ trace' = <<>>
  /\ phase' = "idle"
  /\ UNCHANGED <<input, variant, failAdvance, stack, ret, runs>>

\* ------------------------------------------------------------- pratt_parse
\* faulty variants of RhsThreshold: the operator's own left strength is handed down;
\* a validating run hands down no threshold
RhsThresholdLeft(m, prec) == Some(prec.strength_left)
RhsThresholdModal(m, prec) == IF m = "Check" THEN None ELSE Some(prec.strength_right)

\* the threshold handed to the recursive parse of an infix operator's operand
RhsThreshold(m, prec) == Some(prec.strength_right)

\* faulty variant of PrefixThreshold: the operand is parsed unconstrained
PrefixThresholdNone(m, prec) == None

\* the threshold handed to the recursive parse of a prefix operator's operand
PrefixThreshold(m, prec) == Some(prec.strength_right)

\* faulty variants of Rejects: is_le for is_lt; the threshold is ignored
RejectsLe(prec, min_strength) ==
  min_strength.some /\ ~StrengthLt(min_strength.strength, prec.strength_left)
RejectsNever(prec, min_strength) == FALSE

\* prec.strength_left().is_lt(&min_strength)
Rejects(prec, min_strength) == is_lt(prec.strength_left, min_strength)

\* self.atom.go::<M>(inp)?
Atom(v) ==
  /\ Running(v, "atom")
  /\ LET r == atom_go(input, pos, failAdvance)
     IN /\ pos' = r.pos
        /\ Log(IF r.ok THEN "atom_ok" ELSE "atom_err", pos)
        /\ IF r.ok
           THEN /\ stack' = SetTop([Top EXCEPT !.left = M_bind(mode, r.val),
                                               !.pc = "loop"])
                /\ ret' = NoRet
           ELSE /\ stack' = Tail(stack)
                /\ ret' = Err(r.err)
  /\ UNCHANGED <<input, variant, failAdvance, mode, phase, runs>>

\* let pre_op = inp.save(); match self.infix_ops.go::<Emit>(inp)
InfixAttempt(v) ==
  /\ Running(v, "loop")
  /\ LET r == infix_go(input, pos, failAdvance)
     IN /\ pos' = r.pos
        /\ stack' = SetTop([Top EXCEPT !.pre_op = pos,
                                       !.open = TRUE,
                                       !.m = [ok |-> r.ok, out |-> r.out, err |-> r.err],
                                       !.pc = "infix_match"])
  /\ UNCHANGED <<input, variant, failAdvance, mode, phase, ret, trace, runs>>

\* faulty variants of InfixErr: the operator matcher's failure is returned; the
\* rewind is left out
InfixErrFails(v) ==
  /\ Running(v, "infix_match")
  /\ ~Top.m.ok
  /\ pos' = Top.pre_op
  /\ stack' = Tail(stack)
  /\ ret' = Err(Top.m.err)
  /\ Log("infix_err", Top.pre_op)
  /\ UNCHANGED <<input, variant, failAdvance, mode, phase, runs>>
InfixErrNoRewind(v) ==
  /\ Running(v, "infix_match")
  /\ ~Top.m.ok
  /\ stack' = Tail(stack)
  /\ ret' = Ok(Top.left)
  /\ Log("infix_err", Top.pre_op)
  /\ UNCHANGED <<input, variant, failAdvance, mode, phase, pos, runs>>

\* Err(_) => { inp.rewind(pre_op); return Ok(left); }
InfixErr(v) ==
  /\ Running(v, "infix_match")
  /\ ~Top.m.ok
  /\ pos' = Top.pre_op
  /\ stack' = Tail(stack)
  /\ ret' = Ok(Top.left)
  /\ Log("infix_err", Top.pre_op)
  /\ UNCHANGED <<input, variant, failAdvance, mode, phase, runs>>

\* faulty variants of InfixWeak: the rewind is left out; the loop goes on instead of
\* returning
InfixWeakNoRewind(v) ==
  /\ Running(v, "infix_match")
  /\ Top.m.ok
  /\ Rejects(Top.m.out.prec, Top.min_strength)
  /\ stack' = Tail(stack)
  /\ ret' = Ok(Top.left)
  /\ Log("infix_weak", Top.pre_op)
  /\ UNCHANGED <<input, variant, failAdvance, mode, phase, pos, runs>>
InfixWeakContinues(v) ==
  /\ Running(v, "infix_match")
  /\ Top.m.ok
  /\ Rejects(Top.m.out.prec, Top.min_strength)
  /\ pos' = Top.pre_op
  /\ stack' = SetTop([Top EXCEPT !.pc = "loop"])
  /\ Log("infix_weak", Top.pre_op)
  /\ UNCHANGED <<input, variant, failAdvance, mode, phase, ret, runs>>

\* Ok(..) if strength_left < min_strength => { inp.rewind(pre_op); return Ok(left); }
InfixWeak(v) ==
  /\ Running(v, "infix_match")
  /\ Top.m.ok
  /\ Rejects(Top.m.out.prec, Top.min_strength)
  /\ pos' = Top.pre_op
  /\ stack' = Tail(stack)
  /\ ret' = Ok(Top.left)
  /\ Log("infix_weak", Top.pre_op)
  /\ UNCHANGED <<input, variant, failAdvance, mode, phase, runs>>

\* Ok(..) => (build, prec); self.pratt_parse::<M>(inp, Some(prec.strength_right()))
InfixAccept(v) ==
  /\ Running(v, "infix_match")
  /\ Top.m.ok
  /\ ~Rejects(Top.m.out.prec, Top.min_strength)
  /\ stack' = <<NewFrame(v, RhsThreshold(mode, Top.m.out.prec))>>
                 \o SetTop([Top EXCEPT !.op = Top.m.out.build,
                                       !.prec = Top.m.out.prec,
                                       !.pc = "rhs"])
  /\ Log("infix_accept", Top.pre_op)
  /\ UNCHANGED <<input, variant, failAdvance, mode, phase, pos, ret, runs>>

\* let right = ..?; left = M::combine(left, right, op); (operand parsed)
InfixRhsOk(v) ==
  /\ Running(v, "rhs")
  /\ ret.set /\ ret.ok
  /\ stack' = SetTop([Top EXCEPT !.left = M_combine(mode, Top.left, ret.val, Top.op),
                                 !.pc = "loop"])
  /\ ret' = NoRet
  /\ UNCHANGED <<input, variant, failAdvance, mode, phase, pos, trace, runs>>

\* faulty variant of InfixRhsErr: the failure is returned from before the operator
InfixRhsErrRewinds(v) ==
  /\ Running(v, "rhs")
  /\ ret.set /\ ~ret.ok
  /\ pos' = Top.pre_op
  /\ stack' = Tail(stack)
  /\ UNCHANGED <<input, variant, failAdvance, mode, phase, ret, trace, runs>>

\* let right = ..?; (operand failed: `?` returns the failure)
InfixRhsErr(v) ==
  /\ Running(v, "rhs")
  /\ ret.set /\ ~ret.ok
  /\ stack' = Tail(stack)
  /\ UNCHANGED <<input, variant, failAdvance, mode, phase, pos, ret, trace, runs>>

\* let pre_op = inp.save(); match self.prefix_ops.go::<Emit>(inp)
PrefixAttempt(v) ==
  /\ Running(v, "prefix")
  /\ LET r == prefix_go(input, pos, failAdvance)
     IN /\ pos' = r.pos
        /\ stack' = SetTop([Top EXCEPT !.pre_op = pos,
                                       !.open = TRUE,
                                       !.m = [ok |-> r.ok, out |-> r.out, err |-> r.err],
                                       !.pc = "prefix_match"])
  /\ UNCHANGED <<input, variant, failAdvance, mode, phase, ret, trace, runs>>

\* Ok(PrattOpOutput(prec, build)) => self.pratt_parse::<M>(inp, Some(prec.strength_right()))
PrefixOk(v) ==
  /\ Running(v, "prefix_match")
  /\ Top.m.ok
  /\ stack' = <<NewFrame(v, PrefixThreshold(mode, Top.m.out.prec))>>
                 \o SetTop([Top EXCEPT !.op = Top.m.out.build,
                                       !.prec = Top.m.out.prec,
                                       !.pc = "prefix_rhs"])
  /\ Log("prefix_ok", Top.pre_op)
  /\ UNCHANGED <<input, variant, failAdvance, mode, phase, pos, ret, runs>>

\* Err(_) => { inp.rewind(pre_op); self.atom.go::<M>(inp)? } (up to the atom)
PrefixErr(v) ==
  /\ Running(v, "prefix_match")
  /\ ~Top.m.ok
  /\ pos' = Top.pre_op
  /\ stack' = SetTop([Top EXCEPT !.open = FALSE, !.pc = "atom"])
  /\ Log("prefix_err", Top.pre_op)
  /\ UNCHANGED <<input, variant, failAdvance, mode, phase, ret, runs>>

\* let right = ..?; M::map(right, build) (operand parsed)
PrefixRhsOk(v) ==
  /\ Running(v, "prefix_rhs")
  /\ ret.set /\ ret.ok
  /\ stack' = SetTop([Top EXCEPT !.left = M_map(mode, ret.val, Top.op),
                                 !.pc = "loop"])
  /\ ret' = NoRet
  /\ UNCHANGED <<input, variant, failAdvance, mode, phase, pos, trace, runs>>

\* let right = ..?; (operand failed: `?` returns the failure)
PrefixRhsErr(v) ==
  /\ Running(v, "prefix_rhs")
  /\ ret.set /\ ~ret.ok
  /\ stack' = Tail(stack)
  /\ UNCHANGED <<input, variant, failAdvance, mode, phase, pos, ret, trace, runs>>

\* impl PrattParser for Pratt<.., NoOps, (), ..>
PrattAtom == Atom("Pratt")
PrattInfixAttempt == InfixAttempt("Pratt")
PrattInfixErr == InfixErr("Pratt")
PrattInfixWeak == InfixWeak("Pratt")
PrattInfixAccept == InfixAccept("Pratt")
PrattInfixRhsOk == InfixRhsOk("Pratt")
PrattInfixRhsErr == InfixRhsErr("Pratt")

\* impl PrattParser for PrefixPratt
PrefixPrattPrefixAttempt == PrefixAttempt("PrefixPratt")
PrefixPrattPrefixOk == PrefixOk("PrefixPratt")
PrefixPrattPrefixErr == PrefixErr("PrefixPratt")
PrefixPrattPrefixRhsOk == PrefixRhsOk("PrefixPratt")
PrefixPrattPrefixRhsErr == PrefixRhsErr("PrefixPratt")
PrefixPrattAtom == Atom("PrefixPratt")
PrefixPrattInfixAttempt == InfixAttempt("PrefixPratt")
PrefixPrattInfixErr == InfixErr("PrefixPratt")
PrefixPrattInfixWeak == InfixWeak("PrefixPratt")
PrefixPrattInfixAccept == InfixAccept("PrefixPratt")
PrefixPrattInfixRhsOk == InfixRhsOk("PrefixPratt")
PrefixPrattInfixRhsErr == InfixRhsErr("PrefixPratt")

Next ==
  \/ Go
  \/ GoReturn
  \/ NextMode
  \/ PrattAtom
  \/ PrattInfixAttempt
  \/ PrattInfixErr
  \/ PrattInfixWeak
  \/ PrattInfixAccept
  \/ PrattInfixRhsOk
  \/ PrattInfixRhsErr
  \/ PrefixPrattPrefixAttempt
  \/ PrefixPrattPrefixOk
  \/ PrefixPrattPrefixErr
  \/ PrefixPrattPrefixRhsOk
  \/ PrefixPrattPrefixRhsErr
  \/ PrefixPrattAtom
  \/ PrefixPrattInfixAttempt
  \/ PrefixPrattInfixErr
  \/ PrefixPrattInfixWeak
  \/ PrefixPrattInfixAccept
  \/ PrefixPrattInfixRhsOk
  \/ PrefixPrattInfixRhsErr

Spec == Init /\ [][Next]_vars

\* a single thread of control runs the parse to completion
FairSpec == Init /\ [][Next]_vars /\ WF_vars(Next)

Finished == phase = "returned" /\ mode = "Check"

\* ------------------------------------------------- reference constructions
\* the declared strength of the operator that builds node e; atoms bind
\* tighter than every operator
Level(e) ==
  CASE e[1] \in {"Add", "Sub"} -> 0
    [] e[1] \in {"Mul", "Div"} -> 1
    [] e[1] \in {"Negate", "Not"} -> 1
    [] OTHER -> 2
IsInfixNode(e) == e[1] \in {"Add", "Sub", "Mul", "Div"}
IsPrefixNode(e) == e[1] \in {"Negate", "Not"}

TokenOf(build) ==
  CASE build = "Add" -> "+" [] build = "Sub" -> "-"
    [] build = "Mul" -> "*" [] build = "Div" -> "/"
    [] OTHER -> "-"

\* the tokens a tree was built from, left to right ('!' reads as '-': both
\* build Negate)
RECURSIVE Yield(_)
Yield(e) ==
  IF IsInfixNode(e) THEN Yield(e[2]) \o <<TokenOf(e[1])>> \o Yield(e[3])
  ELSE IF IsPrefixNode(e) THEN <<TokenOf(e[1])>> \o Yield(e[2])
  ELSE to_string(e[2])
Consumed(from, to) ==
  [i \in 1..(to - from) |->
     IF input[from + i] = "!" THEN "-" ELSE input[from + i]]

\* no infix node has an infix operand of lower strength
RECURSIVE InfixNesting(_)
InfixNesting(e) ==
  IF IsInfixNode(e)
  THEN /\ IsInfixNode(e[2]) => Level(e[2]) >= Level(e)
       /\ IsInfixNode(e[3]) => Level(e[3]) >= Level(e)
       /\ InfixNesting(e[2])
       /\ InfixNesting(e[3])
  ELSE IF IsPrefixNode(e) THEN InfixNesting(e[2])
  ELSE TRUE

\* no prefix node has an operand built by an operator weaker than the prefix
RECURSIVE PrefixNesting(_)
PrefixNesting(e) ==
  IF IsInfixNode(e) THEN PrefixNesting(e[2]) /\ PrefixNesting(e[3])
  ELSE IF IsPrefixNode(e) THEN Level(e[2]) >= Level(e) /\ PrefixNesting(e[2])
  ELSE TRUE

\* inp is a1 op a2 ... op an, n >= 2, every op in ops, every ai an integer
IsChain(inp, ops) ==
  /\ Len(inp) >= 3
  /\ IsDigit(inp[1]) /\ IsDigit(inp[Len(inp)])
  /\ \A i \in 1..Len(inp) : IsDigit(inp[i]) \/ inp[i] \in ops
  /\ \A i \in 1..(Len(inp) - 1) : IsDigit(inp[i]) \/ IsDigit(inp[i + 1])
  /\ \E i \in 1..Len(inp) : inp[i] \in ops
  /\ \A i \in 1..(Len(inp) - 1) :
       (inp[i] = "0" /\ (i = 1 \/ ~IsDigit(inp[i - 1]))) => ~IsDigit(inp[i + 1])
NumOps(inp) == Cardinality({i \in 1..Len(inp) : ~IsDigit(inp[i])})

LeftOpsAt(L) == {c \in InfixTokens : infix_ops(c).prec = new_left(L)}
RightOpsAt(L) == {c \in InfixTokens : infix_ops(c).prec = new_right(L)}
Levels == 0..1

\* (...((a1 op a2) op a3)...) op an
RECURSIVE LeftTreeOf(_)
LeftTreeOf(inp) ==
  IF \A i \in 1..Len(inp) : IsDigit(inp[i]) THEN Literal(from_str(inp))
  ELSE LET k == CHOOSE i \in 1..Len(inp) :
                  ~IsDigit(inp[i]) /\ \A j \in (i + 1)..Len(inp) : IsDigit(inp[j])
       IN <<infix_ops(inp[k]).build,
            LeftTreeOf(SubSeq(inp, 1, k - 1)),
            Literal(from_str(SubSeq(inp, k + 1, Len(inp))))>>

\* a1 op (a2 op (... op an))
RECURSIVE RightTreeOf(_)
RightTreeOf(inp) ==
  IF \A i \in 1..Len(inp) : IsDigit(inp[i]) THEN Literal(from_str(inp))
  ELSE LET k == CHOOSE i \in 1..Len(inp) :
                  ~IsDigit(inp[i]) /\ \A j \in 1..(i - 1) : IsDigit(inp[j])
       IN <<infix_ops(inp[k]).build,
            Literal(from_str(SubSeq(inp, 1, k - 1))),
            RightTreeOf(SubSeq(inp, k + 1, Len(inp)))>>

\* the work of a run so far: recursive calls of pratt_parse plus iterations of
\* the infix loop that did not return
Calls(t) == Cardinality({i \in 1..Len(t) : t[i][1] \in {"infix_accept", "prefix_ok"}})
Iterations(t) == Cardinality({i \in 1..Len(t) : t[i][1] = "infix_accept"})

Leaving == stack # <<>> /\ Len(stack') < Len(stack)

\* ------------------------------------------------------------------ claims
\* C1: a chain a1 op a2 ... op an of left-associative operators of one
\* strength parses, from threshold None, to (...((a1 op a2) op a3)...) op an.
C1_LeftChainsGroupLeft ==
  \A L \in Levels :
    (runs["Emit"].done /\ IsChain(input, LeftOpsAt(L))) =>
      /\ runs["Emit"].ok
      /\ runs["Emit"].pos = Len(input)
      /\ fmt(runs["Emit"].val) = fmt(LeftTreeOf(input))
C1_Witness ==
  /\ runs["Emit"].done
  /\ IsChain(input, LeftOpsAt(0))
  /\ NumOps(input) >= 3
  /\ "+" \in Range(input) /\ "-" \in Range(input)

\* C2: a chain of right-associative operators of one strength parses to
\* a1 op (a2 op (... op an)).
C2_RightChainsGroupRight ==
  \A L \in Levels :
    (runs["Emit"].done /\ IsChain(input, RightOpsAt(L))) =>
      /\ runs["Emit"].ok
      /\ runs["Emit"].pos = Len(input)
      /\ fmt(runs["Emit"].val) = fmt(RightTreeOf(input))
C2_Witness ==
  /\ runs["Emit"].done
  /\ IsChain(input, RightOpsAt(1))
  /\ NumOps(input) >= 3
  /\ "*" \in Range(input) /\ "/" \in Range(input)

\* C3: in every tree returned, read back left to right, the tokens are the
\* consumed input and no infix operator has an operand built by an infix
\* operator of lower strength; 1+2*3/4*5-6*7+8-9+10 gives
\* (((((1 + (2 * (3 / (4 * 5)))) - (6 * 7)) + 8) - 9) + 10).
C3_HigherStrengthBindsTighter ==
  runs["Emit"].done =>
    /\ runs["Emit"].ok =>
         /\ InfixNesting(runs["Emit"].val)
         /\ Yield(runs["Emit"].val) = Consumed(0, runs["Emit"].pos)
    /\ input = ComplexNesting =>
         /\ runs["Emit"].ok
         /\ fmt(runs["Emit"].val) = ComplexNestingOutput
C3_Witness ==
  /\ runs["Emit"].done
  /\ input = ComplexNesting
  /\ variant = "Pratt"

C5_OnlyAtomFailures ==
  /\ (ret.set /\ ~ret.ok) =>
       /\ ret.err = unexpected("atom", input, ret.err.from)
       /\ Last(trace) = <<"atom_err", ret.err.from>>
  /\ \A m \in Modes :
       runs[m].done =>
         /\ ~runs[m].ok =>
              /\ runs[m].err = unexpected("atom", input, runs[m].err.from)
              /\ Last(runs[m].trace) = <<"atom_err", runs[m].err.from>>
         /\ (/\ ~atom_go(input, 0, failAdvance).ok
             /\ variant = "PrefixPratt" => ~prefix_go(input, 0, failAdvance).ok)
              => (~runs[m].ok /\ runs[m].err = unexpected("atom", input, 0))
C5_Witness ==
  /\ runs["Emit"].done
  /\ ~runs["Emit"].ok
  /\ runs["Emit"].err.from >= 2
  /\ \E i \in 1..Len(runs["Emit"].trace) : runs["Emit"].trace[i][1] = "infix_weak"

\* C6: when the operand of an accepted operator fails, the activation waiting
\* for it returns that failure at once, leaving the cursor where it is, past
\* the operator; go returns it as it is.  An operator followed by no operand
\* at all fails just after the operator: "1+" at 2..2, "1+?" at 2..3.
C6_Step ==
  /\ (stack # <<>> /\ Top.pc \in {"rhs", "prefix_rhs"} /\ ret.set /\ ~ret.ok) =>
       /\ stack' = Tail(stack)
       /\ ret' = ret
       /\ pos' = pos
       /\ trace' = trace
       /\ pos > Top.pre_op
       /\ ret.err.from > Top.pre_op
       /\ (/\ Top.pc = "rhs"
           /\ ~atom_go(input, Top.pre_op + 1, failAdvance).ok
           /\ variant = "PrefixPratt" => ~prefix_go(input, Top.pre_op + 1, failAdvance).ok)
            => ret.err = unexpected("atom", input, Top.pre_op + 1)
  /\ (phase = "running" /\ stack = <<>> /\ ret.set /\ ~ret.ok) =>
       /\ ~runs'[mode].ok
       /\ runs'[mode].err = ret.err
       /\ runs'[mode].pos = pos
       /\ runs'[mode].pos >= ret.err.from
  /\ (phase' = "returned" /\ phase = "running" /\ input = MissingLater) =>
       /\ ~runs'[mode].ok
       /\ runs'[mode].err = [by |-> "atom", found |-> EndOfInput, from |-> 2, to |-> 2]
  /\ (phase' = "returned" /\ phase = "running" /\ input = InvalidLater) =>
       /\ ~runs'[mode].ok
       /\ runs'[mode].err = [by |-> "atom", found |-> "?", from |-> 2, to |-> 3]
C6_OperandIsMandatory == [][C6_Step]_vars
C6_Witness ==
  /\ Len(stack) >= 2
  /\ Top.pc = "rhs"
  /\ stack[2].pc = "rhs"
  /\ ret.set /\ ~ret.ok

\* C7: when the infix matcher fails, or matches an operator weaker than the
\* threshold, the activation rewinds to the checkpoint and returns its left
\* value; a successful return leaves the cursor at the end of the last
\* operand of the returned value.  "1?" succeeds at 1 and is not complete.
C7_Step ==
  /\ (/\ phase = "running" /\ stack # <<>> /\ Top.pc = "infix_match"
      /\ \/ ~Top.m.ok
         \/ /\ Top.min_strength.some
            /\ StrengthLt(infix_ops(input[Top.pre_op + 1]).prec.strength_left,
                          Top.min_strength.strength)) =>
       /\ pos' = Top.pre_op
       /\ stack' = Tail(stack)
       /\ ret' = Ok(Top.left)
  /\ (ret'.set /\ ret'.ok) =>
       /\ pos' > 0
       /\ IsDigit(input[pos'])
       /\ pos' < Len(input) =>
            \/ input[pos' + 1] \notin InfixTokens
            \/ /\ stack' # <<>>
               /\ StrengthLt(infix_ops(input[pos' + 1]).prec.strength_left,
                             stack'[1].prec.strength_right)
       /\ mode = "Emit" =>
            /\ Len(Yield(ret'.val)) <= pos'
            /\ Yield(ret'.val) = Consumed(pos' - Len(Yield(ret'.val)), pos')
  /\ (phase' = "returned" /\ phase = "running" /\ input = InvalidOperator) =>
       /\ runs'[mode].ok
       /\ runs'[mode].pos = 1
       /\ ~runs'[mode].complete
C7_NoOperatorIsSuccess == [][C7_Step]_vars
C7_Witness ==
  /\ ret.set /\ ret.ok
  /\ trace # <<>>
  /\ Last(trace)[1] = "infix_weak"
  /\ pos < Len(input)

\* C8: a matched prefix operator of level L parses its operand with threshold
\* L and the builder is applied to that operand before the infix loop starts,
\* so no prefix node has an operand built by a weaker infix operator;
\* -1+2*3 gives ((-1) + (2 * 3)).
PrefixStrength == 1
C8_Step ==
  /\ (phase = "running" /\ stack # <<>> /\ Top.pc = "prefix_match" /\ Top.m.ok) =>
       /\ Len(stack') = Len(stack) + 1
       /\ stack'[1].min_strength = Some(<<PrefixStrength, 0>>)
       /\ stack'[1].min_strength = Some(new_right(PrefixStrength).strength_left)
       /\ pos' = Top.pre_op + 1
  /\ (phase = "running" /\ stack # <<>> /\ Top.pc = "prefix_rhs" /\ ret.set /\ ret.ok) =>
       /\ Len(stack') = Len(stack)
       /\ stack'[1].pc = "loop"
       /\ stack'[1].left = IF mode = "Emit" THEN <<"Negate", ret.val>> ELSE Unit
       /\ pos' = pos
       /\ trace' = trace
  /\ (phase' = "returned" /\ phase = "running" /\ mode = "Emit" /\ runs'["Emit"].ok) =>
       PrefixNesting(runs'["Emit"].val)
  /\ (/\ phase' = "returned" /\ phase = "running" /\ mode = "Emit"
      /\ input = WithPrefixOps /\ variant = "PrefixPratt") =>
       /\ runs'["Emit"].ok
       /\ fmt(runs'["Emit"].val) = WithPrefixOpsOutput
C8_PrefixOperand == [][C8_Step]_vars
C8_Witness ==
  /\ runs["Emit"].done
  /\ input = WithPrefixOps
  /\ variant = "PrefixPratt"

\* C9 (as stated): every activation that took a checkpoint leaves with the
\* cursor rewound to it.
C9_Original ==
  [][(Leaving /\ Top.pre_op # NoCheckpoint) =>
       \/ ~Top.open
       \/ (Top.pc = "infix_match" /\ pos' = Top.pre_op)]_vars

\* C9 (amended): a checkpoint is rewound to exactly when the attempted
\* operator is not accepted: every successful return rewinds to the
\* activation's last checkpoint, and a failed prefix attempt rewinds before
\* the atom is parsed.  A failing return never rewinds: the cursor stays past
\* the checkpoint of the accepted operator and not before the failure.
C9_Step ==
  /\ (Leaving /\ ret'.ok) =>
       /\ Top.pc = "infix_match"
       /\ Top.open
       /\ pos' = Top.pre_op
  /\ (Leaving /\ ~ret'.ok) =>
       /\ ret'.set
       /\ pos' >= ret'.err.from
       /\ Top.open => (Top.pc \in {"rhs", "prefix_rhs"} /\ pos' = pos /\ pos' > Top.pre_op)
  /\ (phase = "running" /\ stack # <<>> /\ Top.pc = "prefix_match" /\ ~Top.m.ok) =>
       /\ pos' = Top.pre_op
       /\ ~stack'[1].open
C9_RewindOnlyUnacceptedOperators == [][C9_Step]_vars
C9_Witness ==
  /\ ret.set /\ ~ret.ok
  /\ stack # <<>>
  /\ Top.pc = "rhs"
  /\ Top.open
  /\ pos > Top.pre_op + 1

\* C10: every run ends; the recursive calls plus the loop iterations that do
\* not return never outnumber the input's tokens, and each of them moves the
\* cursor forward.
C10_Step ==
  /\ (phase = "running" /\ stack # <<>> /\ Top.pc \in {"rhs", "prefix_rhs"}
      /\ ret.set /\ ret.ok) => pos > Top.pre_op + 1
  /\ (Leaving /\ Len(stack) >= 2 /\ ret'.ok) => pos' > stack[2].pre_op + 1
C10_Terminates ==
  /\ [][C10_Step]_vars
  /\ [](Calls(trace) + Iterations(trace) <= Len(input))
  /\ [](Len(trace) < StepCap)
  /\ <>Finished
C10_Witness ==
  /\ Finished
  /\ Len(input) >= 4
  /\ Calls(runs["Check"].trace) + Iterations(runs["Check"].trace) = Len(input) - 1
====
